---------------------------- MODULE Spec2Model ----------------------------
(***************************************************************************)
(* A model of utxodump.py: the chainstate codec (varint decoder, amount    *)
(* decompressor, XOR cipher, key/value decoders, secret loader) and the    *)
(* dump driver (dump_csv run under main's exception handler).              *)
(*                                                                         *)
(* Two specifications share the variables:                                 *)
(*   CodecSpec  one call of one codec function on an input drawn in Init   *)
(*   Spec       one run of main() over a store drawn in Init               *)
(*                                                                         *)
(* Bytes are naturals in 0..255, byte strings are sequences of bytes.      *)
(* Python integers are unbounded; the inputs are chosen so that every      *)
(* intermediate value stays below 2^31.                                    *)
(***************************************************************************)
EXTENDS Integers, Sequences, FiniteSets, TLC

VARIABLES
    \* ---- CodecSpec: one function call
    fn,        \* the function called
    arg,       \* its immutable arguments
    mem,       \* the bytearray passed by reference (decrypt mutates it)
    ret,       \* what the call returned or raised
    applied,   \* how many times the function has been applied
    \* ---- Spec: one run of main()
    pc,        \* the statement about to run
    store,     \* the database: entries [key, val] in bytewise key order
    secret,    \* dump_csv's local `secret`
    it,        \* the RangeIter position: index of the next store entry
    k,         \* loop variable k: the current entry's key
    v,         \* loop variable v: the current entry's value buffer
    rec,       \* txid, vout, height, coinbase, amount decoded so far
    sink,      \* the rows handed to csv.writer, in order
    exc,       \* the exception in flight, "none" when there is none
    exit,      \* "running", "success" (exit status 0) or "failure"
    stderr,    \* the traceback Python prints for an uncaught exception
    trace      \* history: which statement ran on which store entry

codecVars == <<fn, arg, mem, ret, applied>>
dumpVars  == <<pc, store, secret, it, k, v, rec, sink, exc, exit, stderr, trace>>
vars      == <<fn, arg, mem, ret, applied,
               pc, store, secret, it, k, v, rec, sink, exc, exit, stderr, trace>>

-----------------------------------------------------------------------------
(* Bounds of the model *)

\* longest byte string that follows an encoded varint or a txid
MaxTail == 2
\* longest value buffer handed to decode_val
MaxValLen == 3
\* longest ciphertext handed to decrypt, and longest cipher key
MaxBuf == 3
MaxKeyLen == 2
\* how far around each varint length boundary the samples reach
SampleRadius == 2
\* amounts are m * 10^e with m up to MaxMant, up to MaxAmount
MaxMant == 120
MaxAmount == 2000000000
\* the store holds at most this many entries besides the secret record
MaxEntries == 3

-----------------------------------------------------------------------------
(* Python's integer and sequence operators *)

RECURSIVE BitAnd(_, _)
BitAnd(a, b) ==
    IF a = 0 \/ b = 0 THEN 0
    ELSE (IF a % 2 = 1 /\ b % 2 = 1 THEN 1 ELSE 0) + 2 * BitAnd(a \div 2, b \div 2)

RECURSIVE BitOr(_, _)
BitOr(a, b) ==
    IF a = 0 THEN b
    ELSE IF b = 0 THEN a
    ELSE (IF a % 2 = 1 \/ b % 2 = 1 THEN 1 ELSE 0) + 2 * BitOr(a \div 2, b \div 2)

RECURSIVE BitXor(_, _)
BitXor(a, b) ==
    IF a = 0 THEN b
    ELSE IF b = 0 THEN a
    ELSE ((a + b) % 2) + 2 * BitXor(a \div 2, b \div 2)

RECURSIVE ShiftLeft(_, _)
ShiftLeft(n, s) == IF s = 0 THEN n ELSE ShiftLeft(2 * n, s - 1)

RECURSIVE ShiftRight(_, _)
ShiftRight(n, s) == IF s = 0 THEN n ELSE ShiftRight(n \div 2, s - 1)

Min(a, b) == IF a < b THEN a ELSE b

\* s[lo:hi] with Python's clamping; lo and hi are 0-based, hi exclusive
PySlice(s, lo, hi) ==
    LET h == Min(hi, Len(s))
    IN  IF lo >= h THEN <<>> ELSE [i \in 1..(h - lo) |-> s[lo + i]]

\* s[lo:]
PySliceFrom(s, lo) == PySlice(s, lo, Len(s))

\* s[::-1]
Reversed(s) == [i \in 1..Len(s) |-> s[Len(s) + 1 - i]]

HexDigits == <<"0", "1", "2", "3", "4", "5", "6", "7",
               "8", "9", "a", "b", "c", "d", "e", "f">>

\* binascii.hexlify(...).decode('utf8'): two lowercase hex digits per byte
RECURSIVE hexlify(_)
hexlify(s) ==
    IF s = <<>> THEN <<>>
    ELSE <<HexDigits[(s[1] \div 16) + 1], HexDigits[(s[1] % 16) + 1]>> \o hexlify(Tail(s))

\* str(n) of a non-negative integer, as csv.writer renders a number field
RECURSIVE str(_)
str(n) ==
    IF n < 10 THEN <<HexDigits[n + 1]>>
    ELSE str(n \div 10) \o <<HexDigits[(n % 10) + 1]>>

\* bytewise (lexicographic) order of byte strings: leveldb's default comparator
RECURSIVE BytesLess(_, _)
BytesLess(a, b) ==
    IF b = <<>> THEN FALSE
    ELSE IF a = <<>> THEN TRUE
    ELSE IF a[1] # b[1] THEN a[1] < b[1]
    ELSE BytesLess(Tail(a), Tail(b))

BytesLeq(a, b) == a = b \/ BytesLess(a, b)

-----------------------------------------------------------------------------
(* Program constants *)

\* COIN = 67
COIN == 67

\* OBFUSCATE_KEY = bytearray(b'\x0e\x00obfuscate_key')
OBFUSCATE_KEY == <<14, 0, 111, 98, 102, 117, 115, 99, 97, 116, 101, 95, 107, 101, 121>>

\* the bounds handed to conn.RangeIter: b'C' and b'D'
RangeFrom == <<67>>
RangeTo   == <<68>>

\* the header row; a field is the sequence of its characters
Header == << <<"t", "x", "i", "d">>,
            <<"v", "o", "u", "t">>,
            <<"h", "e", "i", "g", "h", "t">>,
            <<"c", "o", "i", "n", "b", "a", "s", "e">>,
            <<"a", "m", "o", "u", "n", "t">> >>

-----------------------------------------------------------------------------
(* The codec.  A call returns [raised |-> "none", ...] or raises:          *)
(* [raised |-> <exception class>].                                         *)

NoVarint(e) == [raised |-> e, n |-> 0, consumed |-> 0]

\* decode_varint without the increment on a continuation byte (plain base 128)
RECURSIVE varint_loop_plain(_, _, _)
varint_loop_plain(val, i, n) ==
    IF i > Len(val) THEN NoVarint("AssertionError")
    ELSE LET c  == val[i]
             n1 == BitOr(ShiftLeft(n, 7), BitAnd(c, 127))
         IN  IF BitAnd(c, 128) # 0
             THEN varint_loop_plain(val, i + 1, n1)
             ELSE [raised |-> "none", n |-> n1, consumed |-> i]

\* the loop of decode_varint; i is the 1-based position of the next byte
RECURSIVE varint_loop(_, _, _)
varint_loop(val, i, n) ==
    IF i > Len(val) THEN NoVarint("AssertionError")          \* assert False
    ELSE LET c  == val[i]
             n1 == BitOr(ShiftLeft(n, 7), BitAnd(c, 127))
         IN  IF BitAnd(c, 128) # 0
             THEN varint_loop(val, i + 1, n1 + 1)
             ELSE [raised |-> "none", n |-> n1, consumed |-> i]

decode_varint(val) == varint_loop(val, 1, 0)

RECURSIVE amount_loop(_, _)
amount_loop(n, e) == IF e = 0 THEN n ELSE amount_loop(n * 10, e - 1)

\* decompress_amount with d = x % 9, the + 1 forgotten
decompress_amount_nodigit(x) ==
    IF x = 0 THEN 0
    ELSE LET x1 == x - 1
             e  == x1 % 10
             x2 == x1 \div 10
         IN  IF e < 9
             THEN LET d  == x2 % 9
                      x3 == x2 \div 9
                  IN  amount_loop(x3 * 10 + d, e)
             ELSE amount_loop(x2 + 1, e)

decompress_amount(x) ==
    IF x = 0 THEN 0
    ELSE LET x1 == x - 1
             e  == x1 % 10
             x2 == x1 \div 10
         IN  IF e < 9
             THEN LET d  == (x2 % 9) + 1
                      x3 == x2 \div 9
                  IN  amount_loop(x3 * 10 + d, e)
             ELSE amount_loop(x2 + 1, e)

\* decrypt raises only when it must index an empty key
decrypt_raises(ciphertext, key) == ciphertext # <<>> /\ key = <<>>

\* decrypt indexing the key by the byte c instead of its position i
decrypt_bybyte(ciphertext, key) ==
    [i \in 1..Len(ciphertext) |->
        BitXor(ciphertext[i], key[(ciphertext[i] % Len(key)) + 1])]

\* the contents of `ciphertext` after decrypt(ciphertext, key)
decrypt(ciphertext, key) ==
    [i \in 1..Len(ciphertext) |->
        BitXor(ciphertext[i], key[((i - 1) % Len(key)) + 1])]

NoKey(e) == [raised |-> e, txid |-> <<>>, vout |-> 0]

\* decode_key without the check that the varint consumed every remaining byte
decode_key_nolen(key) ==
    IF key = <<>> THEN NoKey("IndexError")
    ELSE IF key[1] # COIN THEN NoKey("AssertionError")
    ELSE LET txid            == hexlify(Reversed(PySlice(key, 1, 33)))
             compressed_vout == PySliceFrom(key, 33)
             r               == decode_varint(compressed_vout)
         IN  IF r.raised # "none" THEN NoKey(r.raised)
             ELSE [raised |-> "none", txid |-> txid, vout |-> r.n]

decode_key(key) ==
    IF key = <<>> THEN NoKey("IndexError")                   \* key[0]
    ELSE IF key[1] # COIN THEN NoKey("AssertionError")
    ELSE LET txid            == hexlify(Reversed(PySlice(key, 1, 33)))
             compressed_vout == PySliceFrom(key, 33)
             r               == decode_varint(compressed_vout)
         IN  IF r.raised # "none" THEN NoKey(r.raised)
             ELSE IF r.consumed # Len(compressed_vout) THEN NoKey("AssertionError")
             ELSE [raised |-> "none", txid |-> txid, vout |-> r.n]

NoVal(e) == [raised |-> e, height |-> 0, coinbase |-> 0, amount |-> 0]

\* decode_val decoding the amount from the start of val, not from val[consumed:]
decode_val_restart(val) ==
    LET r1 == decode_varint(val)
    IN  IF r1.raised # "none" THEN NoVal(r1.raised)
        ELSE LET code     == r1.n
                 coinbase == BitAnd(code, 1)
                 height   == ShiftRight(code, 1)
                 r2       == decode_varint(val)
             IN  IF r2.raised # "none" THEN NoVal(r2.raised)
                 ELSE [raised |-> "none", height |-> height, coinbase |-> coinbase,
                       amount |-> decompress_amount(r2.n)]

decode_val(val) ==
    LET r1 == decode_varint(val)
    IN  IF r1.raised # "none" THEN NoVal(r1.raised)
        ELSE LET code     == r1.n
                 coinbase == BitAnd(code, 1)
                 height   == ShiftRight(code, 1)
                 r2       == decode_varint(PySliceFrom(val, r1.consumed))
             IN  IF r2.raised # "none" THEN NoVal(r2.raised)
                 ELSE [raised |-> "none", height |-> height, coinbase |-> coinbase,
                       amount |-> decompress_amount(r2.n)]

\* conn.Get(key): the value stored under key; KeyError when there is none
HasKey(db, key) == \E i \in 1..Len(db) : db[i].key = key
Get(db, key) == db[CHOOSE i \in 1..Len(db) : db[i].key = key].val

NoSecret(e) == [raised |-> e, key |-> <<>>]

\* get_obfuscate_key asserting secret[0] == 8 or len(secret) == 9
get_obfuscate_key_or(db) ==
    IF ~HasKey(db, OBFUSCATE_KEY) THEN NoSecret("KeyError")
    ELSE LET s == Get(db, OBFUSCATE_KEY)
         IN  IF s = <<>> THEN NoSecret("IndexError")
             ELSE IF ~(s[1] = 8 \/ Len(s) = 9) THEN NoSecret("AssertionError")
             ELSE [raised |-> "none", key |-> PySliceFrom(s, 1)]

get_obfuscate_key(db) ==
    IF ~HasKey(db, OBFUSCATE_KEY) THEN NoSecret("KeyError")
    ELSE LET s == Get(db, OBFUSCATE_KEY)
         IN  IF s = <<>> THEN NoSecret("IndexError")         \* secret[0]
             ELSE IF ~(s[1] = 8 /\ Len(s) = 9) THEN NoSecret("AssertionError")
             ELSE [raised |-> "none", key |-> PySliceFrom(s, 1)]

-----------------------------------------------------------------------------
(* Input domains *)

ByteSamples == {0, 1, 127, 128, 129, 255}
KeyBytes    == {0, 8, 170, 255}

SeqsUpTo(S, n) == UNION {[1..m -> S] : m \in 0..n}

Pow10(e) == amount_loop(1, e)

\* two 32-byte transaction ids as stored (little-endian)
TxidA == [i \in 1..32 |-> i - 1]
TxidB == [i \in 1..32 |-> (i * 37) % 256]

\* the integers next to the 1-, 2- and 3-byte boundaries of the varint encoding
VarintSamples ==
    (0..SampleRadius)
    \cup ((127 - SampleRadius)..(128 + SampleRadius))
    \cup ((16511 - SampleRadius)..(16512 + SampleRadius))
    \cup ((2113663 - SampleRadius)..(2113664 + SampleRadius))

\* The reference encoder (the node's WriteVarInt): base-128 digits, most
\* significant first, high bit set on every byte but the last, 1 subtracted
\* before each further shift.
RECURSIVE encode_higher(_)
encode_higher(n) ==
    IF n <= 127 THEN <<128 + n>>
    ELSE encode_higher((n \div 128) - 1) \o <<128 + (n % 128)>>

encode_varint(n) ==
    IF n <= 127 THEN <<n>>
    ELSE encode_higher((n \div 128) - 1) \o <<n % 128>>

\* The reference compressor (the node's CompressAmount): strip up to 9
\* trailing zeros, then encode the last digit and the rest.
RECURSIVE strip_zeros(_, _)
strip_zeros(n, e) ==
    IF n % 10 = 0 /\ e < 9 THEN strip_zeros(n \div 10, e + 1) ELSE <<n, e>>

compress_amount(n) ==
    IF n = 0 THEN 0
    ELSE LET s == strip_zeros(n, 0)
             m == s[1]
             e == s[2]
         IN  IF e < 9
             THEN 1 + ((m \div 10) * 9 + (m % 10) - 1) * 10 + e
             ELSE 1 + (m - 1) * 10 + 9

\* amounts m * 10^e up to MaxAmount: every exponent 0..9 occurs
Amounts ==
    {p[1] * Pow10(p[2]) :
        p \in {q \in (0..MaxMant) \X (0..9) : q[1] <= MaxAmount \div Pow10(q[2])}}

\* whether the amount a compressed code x stands for is at most MaxAmount
AmountFits(x) ==
    x = 0 \/
    LET x1 == x - 1
        e  == x1 % 10
        x2 == x1 \div 10
        m  == IF e < 9 THEN (x2 \div 9) * 10 + (x2 % 9) + 1 ELSE x2 + 1
    IN  m <= MaxAmount \div Pow10(e)

\* whether decode_val(val) stays within the amounts the model represents
ValFits(val) ==
    LET r1 == decode_varint(val)
    IN  r1.raised = "none" =>
            LET r2 == decode_varint(PySliceFrom(val, r1.consumed))
            IN  r2.raised = "none" => AmountFits(r2.n)

VarintInputs ==
    {encode_varint(n) \o t : n \in VarintSamples, t \in SeqsUpTo(ByteSamples, MaxTail)}
    \cup SeqsUpTo({128, 255}, MaxTail)

AmountInputs == {compress_amount(n) : n \in Amounts}

KeyInputs ==
    UNION {{PySlice(<<p>> \o x \o t, 0, L) : L \in 0..(33 + Len(t))} :
              p \in {66, 67, 68}, x \in {TxidA, TxidB}, t \in SeqsUpTo(ByteSamples, MaxTail)}

ValBytes  == {0, 1, 3, 127, 128, 255}
ValInputs == {val \in SeqsUpTo(ValBytes, MaxValLen) : ValFits(val)}

\* secret records: a tag byte and up to 9 further bytes, cut at every length
SecretMaterial == <<170, 187, 204, 221, 238, 255, 0, 17, 34>>
SecretInputs ==
    {PySlice(<<tag>> \o SecretMaterial, 0, L) : tag \in {0, 8, 9}, L \in 0..10}

\* databases holding at most the secret record and one other record
SecretDbs ==
    {<<>>, <<[key |-> <<66>>, val |-> <<8>>]>>}
    \cup {<<[key |-> OBFUSCATE_KEY, val |-> s]>> : s \in SecretInputs}
    \cup {<<[key |-> OBFUSCATE_KEY, val |-> s], [key |-> <<66>>, val |-> <<8>>]>> :
              s \in SecretInputs}

-----------------------------------------------------------------------------
(* CodecSpec: one codec function applied to one input *)

\* the value the run's variables hold while a single function is checked
DumpIdle ==
    /\ pc = "idle" /\ store = <<>> /\ secret = <<>> /\ it = 0
    /\ k = <<>> /\ v = <<>> /\ rec = <<>> /\ sink = <<>>
    /\ exc = "none" /\ exit = "idle" /\ stderr = "none" /\ trace = <<>>

CodecInit ==
    /\ DumpIdle
    /\ ret = "pending" /\ applied = 0
    /\ \/ fn = "decode_varint" /\ arg \in VarintInputs /\ mem = <<>>
       \/ fn = "decompress_amount" /\ arg \in AmountInputs /\ mem = <<>>
       \/ fn = "decrypt" /\ mem \in SeqsUpTo(KeyBytes, MaxBuf)
                         /\ arg \in {[key |-> key, ciphertext0 |-> mem] :
                                         key \in SeqsUpTo(KeyBytes, MaxKeyLen)}
       \/ fn = "decode_key" /\ arg \in KeyInputs /\ mem = <<>>
       \/ fn = "decode_val" /\ arg \in ValInputs /\ mem = <<>>
       \/ fn = "get_obfuscate_key" /\ arg \in SecretDbs /\ mem = <<>>

CallDecodeVarint ==
    /\ fn = "decode_varint" /\ applied = 0
    /\ ret' = decode_varint(arg)
    /\ applied' = 1
    /\ UNCHANGED <<fn, arg, mem>> /\ UNCHANGED dumpVars

CallDecompressAmount ==
    /\ fn = "decompress_amount" /\ applied = 0
    /\ ret' = decompress_amount(arg)
    /\ applied' = 1
    /\ UNCHANGED <<fn, arg, mem>> /\ UNCHANGED dumpVars

\* decrypt(mem, arg.key): in place; it may be applied a second time.
\* arg.ciphertext0 remembers the buffer as it was before the first call.
CallDecrypt ==
    /\ fn = "decrypt" /\ applied < 2 /\ ret # "ZeroDivisionError"
    /\ IF decrypt_raises(mem, arg.key)
       THEN ret' = "ZeroDivisionError" /\ mem' = mem
       ELSE ret' = "None" /\ mem' = decrypt(mem, arg.key)
    /\ applied' = applied + 1
    /\ UNCHANGED <<fn, arg>> /\ UNCHANGED dumpVars

CallDecodeKey ==
    /\ fn = "decode_key" /\ applied = 0
    /\ ret' = decode_key(arg)
    /\ applied' = 1
    /\ UNCHANGED <<fn, arg, mem>> /\ UNCHANGED dumpVars

CallDecodeVal ==
    /\ fn = "decode_val" /\ applied = 0
    /\ ret' = decode_val(arg)
    /\ applied' = 1
    /\ UNCHANGED <<fn, arg, mem>> /\ UNCHANGED dumpVars

CallGetObfuscateKey ==
    /\ fn = "get_obfuscate_key" /\ applied = 0
    /\ ret' = get_obfuscate_key(arg)
    /\ applied' = 1
    /\ UNCHANGED <<fn, arg, mem>> /\ UNCHANGED dumpVars

CodecNext ==
    \/ CallDecodeVarint
    \/ CallDecompressAmount
    \/ CallDecrypt
    \/ CallDecodeKey
    \/ CallDecodeVal
    \/ CallGetObfuscateKey

CodecSpec == CodecInit /\ [][CodecNext]_vars

-----------------------------------------------------------------------------
(* The stores a run is started on *)

\* a well-formed secret record (08 AA BB CC DD EE FF 00 11) and its cipher key
GoodSecret == <<8, 170, 187, 204, 221, 238, 255, 0, 17>>
GoodKey    == <<170, 187, 204, 221, 238, 255, 0, 17>>

\* secret records that get_obfuscate_key refuses: wrong tag, one byte too long
BadSecrets == {<<9, 170, 187, 204, 221, 238, 255, 0, 17>>,
               <<8, 170, 187, 204, 221, 238, 255, 0, 17, 34>>}

\* coin keys, in bytewise order: KeyC1 < KeyC2 < KeyCbad < KeyC3
KeyC1   == <<67>> \o TxidA \o <<0>>
KeyC2   == <<67>> \o TxidA \o <<1>>
KeyCbad == <<67>> \o TxidB \o <<128>>          \* unterminated vout varint
KeyC3   == <<67>> \o TxidB \o <<128, 0>>       \* vout 128
CoinKeys == {KeyC1, KeyC2, KeyCbad, KeyC3}

\* keys of other record kinds: b'B' below the range, b'D' and b'H' above it
OtherKeys == {<<66>>, <<68>>, <<72>>}

\* plaintext values: code, compressed amount, script bytes
PlainVals == {<<0, 0, 99>>,                             \* height 0, amount 0
              <<3, 1, 20, 21, 22, 23, 24, 25, 26, 27>>, \* height 1, coinbase, amount 1
              <<129, 0, 10>>,                           \* height 128, amount 10^9
              <<128>>}                                  \* unterminated code

\* what the node stored: the plaintext XORed with the cipher key
CoinVals == {decrypt(p, GoodKey) : p \in PlainVals}

StoreEntries ==
    {[key |-> key, val |-> val] : key \in CoinKeys, val \in CoinVals}
    \cup {[key |-> key, val |-> <<1, 2>>] : key \in OtherKeys}

SecretEntries ==
    {[key |-> OBFUSCATE_KEY, val |-> s] : s \in {GoodSecret} \cup BadSecrets}

DistinctKeys(S) == \A e1 \in S, e2 \in S : e1.key = e2.key => e1 = e2

\* the entries of S in the store's native (bytewise) key order
RECURSIVE SortEntries(_)
SortEntries(S) ==
    IF S = {} THEN <<>>
    ELSE LET m == CHOOSE e \in S : \A f \in S : BytesLeq(e.key, f.key)
         IN  <<m>> \o SortEntries(S \ {m})

EntrySets ==
    {S \in SUBSET StoreEntries : Cardinality(S) <= MaxEntries /\ DistinctKeys(S)}

Stores ==
    {SortEntries(S) : S \in EntrySets}
    \cup {SortEntries(S \cup {x}) : S \in EntrySets, x \in SecretEntries}

-----------------------------------------------------------------------------
(* Spec: one run of main() *)

DumpStmts == {"get_key", "header", "iter", "decode_key", "decrypt", "decode_val",
              "writerow"}

\* dump_csv writing the header before it loads the secret, and decrypting the
\* value before it decodes the key
dump_csv_next_swapped(stmt) ==
    CASE stmt = "enter"      -> "header"
      [] stmt = "header"     -> "get_key"
      [] stmt = "get_key"    -> "iter"
      [] stmt = "iter"       -> "decrypt"
      [] stmt = "decrypt"    -> "decode_key"
      [] stmt = "decode_key" -> "decode_val"
      [] stmt = "decode_val" -> "writerow"
      [] stmt = "writerow"   -> "iter"

\* the statement of dump_csv that follows stmt ("enter": the call of dump_csv)
dump_csv_next(stmt) ==
    CASE stmt = "enter"      -> "get_key"
      [] stmt = "get_key"    -> "header"
      [] stmt = "header"     -> "iter"
      [] stmt = "iter"       -> "decode_key"
      [] stmt = "decode_key" -> "decrypt"
      [] stmt = "decrypt"    -> "decode_val"
      [] stmt = "decode_val" -> "writerow"
      [] stmt = "writerow"   -> "iter"

\* a loop body that catches a decoding error and goes on with the next entry
on_raise_skip(stmt) ==
    IF stmt \in {"decode_key", "decode_val"} THEN "iter"
    ELSE IF stmt \in DumpStmts THEN "except" ELSE "uncaught"

\* where control goes when stmt raises: dump_csv has no handler of its own, so
\* the exception reaches main's try block; the open is outside the try block
on_raise(stmt) == IF stmt \in DumpStmts THEN "except" ELSE "uncaught"

\* except Exception / a bare except: every exception is passed over
main_handles_all(class) == TRUE

\* except (IOError, KeyboardInterrupt): pass
main_handles(class) == class \in {"IOError", "KeyboardInterrupt"}

\* RangeIter(b'C', b'D'): the first entry at or after key_from
Seek(db, from) ==
    IF \E i \in 1..Len(db) : BytesLeq(from, db[i].key)
    THEN CHOOSE i \in 1..Len(db) :
             /\ BytesLeq(from, db[i].key)
             /\ \A j \in 1..(i - 1) : ~BytesLeq(from, db[j].key)
    ELSE Len(db) + 1

\* RangeIter stops at the first key past key_to: py-leveldb compares the key
\* with key_to and goes on while key <= key_to, so key_to itself is yielded
RangeIterYields(key) == BytesLeq(key, RangeTo)

NoExc == [class |-> "none", at |-> "none", kind |-> "none", entry |-> 0]

NoRec == [txid |-> <<>>, vout |-> 0, height |-> 0, coinbase |-> 0, amount |-> 0]

CodecIdle ==
    fn = "none" /\ arg = <<>> /\ mem = <<>> /\ ret = "none" /\ applied = 0

Init ==
    /\ CodecIdle
    /\ pc = "open"
    /\ store \in Stores
    /\ secret = <<>> /\ it = 0 /\ k = <<>> /\ v = <<>> /\ rec = NoRec
    /\ sink = <<>> /\ exc = NoExc /\ exit = "running" /\ stderr = "none"
    /\ trace = <<>>

\* the store entry the loop body is working on
Current == it - 1

\* stmt raises an exception of the given class
Raise(stmt, class, kind) ==
    /\ exc' = [class |-> class, at |-> stmt, kind |-> kind,
               entry |-> IF stmt \in {"decode_key", "decrypt", "decode_val", "writerow"}
                         THEN Current ELSE 0]
    /\ pc' = on_raise(stmt)

\* conn = leveldb.LevelDB(...)
Open ==
    /\ pc = "open"
    /\ pc' = dump_csv_next("enter")
    /\ UNCHANGED <<store, secret, it, k, v, rec, sink, exc, exit, stderr, trace>>
    /\ UNCHANGED codecVars

\* secret = get_obfuscate_key(conn)
GetKey ==
    /\ pc = "get_key"
    /\ LET r == get_obfuscate_key(store)
       IN  IF r.raised = "none"
           THEN /\ secret' = r.key
                /\ pc' = dump_csv_next("get_key")
                /\ exc' = exc
           ELSE /\ Raise("get_key", r.raised,
                         IF r.raised = "KeyError" THEN "store" ELSE "format")
                /\ secret' = secret
    /\ UNCHANGED <<store, it, k, v, rec, sink, exit, stderr, trace>>
    /\ UNCHANGED codecVars

\* writer.writerow(['txid', 'vout', 'height', 'coinbase', 'amount'])
WriteHeader ==
    /\ pc = "header"
    /\ sink' = Append(sink, Header)
    /\ pc' = dump_csv_next("header")
    /\ UNCHANGED <<store, secret, it, k, v, rec, exc, exit, stderr, trace>>
    /\ UNCHANGED codecVars

\* for k, v in conn.RangeIter(b'C', b'D', include_value=True): the next entry,
\* or the end of the loop and of dump_csv
Iter ==
    /\ pc = "iter"
    /\ LET idx == IF it = 0 THEN Seek(store, RangeFrom) ELSE it
       IN  IF idx <= Len(store) /\ RangeIterYields(store[idx].key)
           THEN /\ k' = store[idx].key
                /\ v' = store[idx].val
                /\ it' = idx + 1
                /\ pc' = dump_csv_next("iter")
           ELSE /\ pc' = "return"
                /\ it' = idx
                /\ UNCHANGED <<k, v>>
    /\ UNCHANGED <<store, secret, rec, sink, exc, exit, stderr, trace>>
    /\ UNCHANGED codecVars

\* txid, vout = decode_key(k)
DecodeKey ==
    /\ pc = "decode_key"
    /\ trace' = Append(trace, [op |-> "decode_key", entry |-> Current])
    /\ LET r == decode_key(k)
       IN  IF r.raised = "none"
           THEN /\ rec' = [rec EXCEPT !.txid = r.txid, !.vout = r.vout]
                /\ pc' = dump_csv_next("decode_key")
                /\ exc' = exc
           ELSE /\ Raise("decode_key", r.raised, "format")
                /\ rec' = rec
    /\ UNCHANGED <<store, secret, it, k, v, sink, exit, stderr>>
    /\ UNCHANGED codecVars

\* decrypt(v, secret)
Decrypt ==
    /\ pc = "decrypt"
    /\ trace' = Append(trace, [op |-> "decrypt", entry |-> Current])
    /\ v' = decrypt(v, secret)
    /\ pc' = dump_csv_next("decrypt")
    /\ UNCHANGED <<store, secret, it, k, rec, sink, exc, exit, stderr>>
    /\ UNCHANGED codecVars

\* height, coinbase, amount = decode_val(v)
DecodeVal ==
    /\ pc = "decode_val"
    /\ trace' = Append(trace, [op |-> "decode_val", entry |-> Current])
    /\ LET r == decode_val(v)
       IN  IF r.raised = "none"
           THEN /\ rec' = [rec EXCEPT !.height = r.height, !.coinbase = r.coinbase,
                                      !.amount = r.amount]
                /\ pc' = dump_csv_next("decode_val")
                /\ exc' = exc
           ELSE /\ Raise("decode_val", r.raised, "format")
                /\ rec' = rec
    /\ UNCHANGED <<store, secret, it, k, v, sink, exit, stderr>>
    /\ UNCHANGED codecVars

\* writer.writerow([txid, vout, height, coinbase, amount]): csv.writer renders
\* each number with str(); no field holds a delimiter or a quote
WriteRow ==
    /\ pc = "writerow"
    /\ sink' = Append(sink, <<rec.txid, str(rec.vout), str(rec.height),
                              str(rec.coinbase), str(rec.amount)>>)
    /\ pc' = dump_csv_next("writerow")
    /\ UNCHANGED <<store, secret, it, k, v, rec, exc, exit, stderr, trace>>
    /\ UNCHANGED codecVars

\* the loop is exhausted: dump_csv returns, main returns, exit status 0
Return ==
    /\ pc = "return"
    /\ exit' = "success"
    /\ pc' = "exited"
    /\ UNCHANGED <<store, secret, it, k, v, rec, sink, exc, stderr, trace>>
    /\ UNCHANGED codecVars

\* the operator presses Ctrl-C: KeyboardInterrupt at the running statement
Interrupt ==
    /\ pc \in DumpStmts \cup {"open"}
    /\ Raise(pc, "KeyboardInterrupt", "interrupt")
    /\ UNCHANGED <<store, secret, it, k, v, rec, sink, exit, stderr, trace>>
    /\ UNCHANGED codecVars

\* the database cannot be opened or read: py-leveldb raises leveldb.LevelDBError
StoreFails ==
    /\ pc \in {"open", "get_key", "iter"}
    /\ Raise(pc, "LevelDBError", "store")
    /\ UNCHANGED <<store, secret, it, k, v, rec, sink, exit, stderr, trace>>
    /\ UNCHANGED codecVars

\* sys.stdout cannot be written (a closed pipe, a full disk): IOError
SinkFails ==
    /\ pc \in {"header", "writerow"}
    /\ Raise(pc, "IOError", "sink")
    /\ UNCHANGED <<store, secret, it, k, v, rec, sink, exit, stderr, trace>>
    /\ UNCHANGED codecVars

\* main's try block: a handled exception is passed over and main returns; any
\* other ends the process with a traceback
MainExcept ==
    /\ pc \in {"except", "uncaught"}
    /\ IF pc = "except" /\ main_handles(exc.class)
       THEN exit' = "success" /\ stderr' = stderr
       ELSE exit' = "failure" /\ stderr' = exc.class
    /\ pc' = "exited"
    /\ UNCHANGED <<store, secret, it, k, v, rec, sink, exc, trace>>
    /\ UNCHANGED codecVars

Next ==
    \/ Open
    \/ GetKey
    \/ WriteHeader
    \/ Iter
    \/ DecodeKey
    \/ Decrypt
    \/ DecodeVal
    \/ WriteRow
    \/ Return
    \/ Interrupt
    \/ StoreFails
    \/ SinkFails
    \/ MainExcept

Spec == Init /\ [][Next]_vars

-----------------------------------------------------------------------------
(* Properties of the codec, checked under CodecSpec *)

Returned(f) == fn = f /\ applied = 1

\* C1: varint round trip.  For every non-negative integer n and every byte
\* string t, decode_varint(encode(n) + t) returns (n, len(encode(n))), where
\* encode is the reference encoder: decoding consumes exactly the encoded
\* length, whatever follows.
C1_VarintRoundTrip ==
    Returned("decode_varint") =>
        \A n \in VarintSamples : \A t \in SeqsUpTo(ByteSamples, MaxTail) :
            arg = encode_varint(n) \o t =>
                ret = [raised |-> "none", n |-> n, consumed |-> Len(encode_varint(n))]

\* a three-byte encoding followed by two further bytes has been decoded
C1_Witness ==
    /\ Returned("decode_varint")
    /\ arg = encode_varint(16512) \o <<255, 0>>
    /\ Len(encode_varint(16512)) = 3
    /\ ret.n = 16512 /\ ret.consumed = 3

\* C2: decompress_amount inverts the reference compressor: for every amount n
\* of the domain, decompress_amount(compress(n)) = n; code 0 gives 0 and
\* code 1 gives 1.
C2_DecompressInvertsCompress ==
    Returned("decompress_amount") =>
        /\ \A n \in Amounts : arg = compress_amount(n) => ret = n
        /\ arg = 0 => ret = 0
        /\ arg = 1 => ret = 1

\* an amount with nine stripped zeros (the e = 9 branch) has been decompressed
C2_Witness ==
    /\ Returned("decompress_amount")
    /\ arg = compress_amount(2000000000)
    /\ arg = 20
    /\ ret = 2000000000

\* C3: cipher involution.  For any buffer and any key of length >= 1, two
\* applications of decrypt with the same key restore the buffer.
C3_CipherInvolution ==
    (fn = "decrypt" /\ applied = 2 /\ Len(arg.key) >= 1) => mem = arg.ciphertext0

\* a buffer longer than a non-zero key has been decrypted twice
C3_Witness ==
    /\ fn = "decrypt" /\ applied = 2
    /\ arg.key = <<170, 255>>
    /\ arg.ciphertext0 = <<8, 0, 255>>
    /\ mem = <<8, 0, 255>>

\* a key whose bytes from offset 33 on are exactly one complete varint
OneVarintFrom33(key) ==
    /\ Len(key) >= 34
    /\ \A i \in 34..(Len(key) - 1) : key[i] >= 128
    /\ key[Len(key)] < 128

\* C4: decode_key raises (an assertion failure, or an index error on the empty
\* key) for every key whose first byte is not 67 and for every key whose
\* bytes from offset 33 onward are not exactly one complete varint (leftover
\* bytes, an unterminated varint, no bytes at all); it returns (txid, vout)
\* only when neither holds.
C4_DecodeKeyRejects ==
    Returned("decode_key") =>
        /\ ret.raised \in {"none", "AssertionError", "IndexError"}
        /\ ret.raised = "none" <=>
              (arg # <<>> /\ arg[1] = 67 /\ OneVarintFrom33(arg))

\* a key with a byte left over after the vout varint has been rejected
C4_Witness ==
    /\ Returned("decode_key")
    /\ arg = <<67>> \o TxidA \o <<1, 0>>
    /\ ret.raised = "AssertionError"

\* C5: get_obfuscate_key raises for every stored secret record whose length is
\* not 9 or whose first byte is not 8 (the empty record included), and for an
\* accepted record returns bytes 1..9 of it, 8 bytes.
C5_SecretValidation ==
    Returned("get_obfuscate_key") =>
        /\ ret.raised = "none" <=>
              /\ HasKey(arg, OBFUSCATE_KEY)
              /\ Len(Get(arg, OBFUSCATE_KEY)) = 9
              /\ Get(arg, OBFUSCATE_KEY)[1] = 8
        /\ ret.raised = "none" =>
              /\ Len(ret.key) = 8
              /\ \A i \in 1..8 : ret.key[i] = Get(arg, OBFUSCATE_KEY)[i + 1]

\* a ten-byte record with the right tag has been refused
C5_Witness ==
    /\ Returned("get_obfuscate_key")
    /\ HasKey(arg, OBFUSCATE_KEY)
    /\ Get(arg, OBFUSCATE_KEY) = <<8>> \o SecretMaterial
    /\ ret.raised = "AssertionError"

\* bytes off+1 .. off+n of s are one complete varint
CompleteVarintAt(s, off, n) ==
    /\ n >= 1 /\ off + n <= Len(s)
    /\ \A j \in 1..(n - 1) : s[off + j] >= 128
    /\ s[off + n] < 128

\* C9: value decode.  When the decrypted value starts with a complete varint
\* `code` (c1 bytes) followed by a complete varint `x` (c2 bytes), decode_val
\* returns height = code >> 1, coinbase = code & 1 and
\* amount = decompress_amount(x); the bytes after the second varint play no part.
C9_DecodeVal ==
    Returned("decode_val") =>
        \A c1 \in 1..Len(arg) : \A c2 \in 1..Len(arg) :
            (CompleteVarintAt(arg, 0, c1) /\ CompleteVarintAt(arg, c1, c2)) =>
                LET code == decode_varint(SubSeq(arg, 1, c1)).n
                    x    == decode_varint(SubSeq(arg, c1 + 1, c1 + c2)).n
                IN  /\ ret.raised = "none"
                    /\ ret.height = code \div 2
                    /\ ret.coinbase = code % 2
                    /\ 2 * ret.height + ret.coinbase = code
                    /\ ret.amount = decompress_amount(x)

\* code 3, compressed amount 127 and one script byte have been decoded
C9_Witness ==
    /\ Returned("decode_val")
    /\ arg = <<3, 127, 255>>
    /\ ret = [raised |-> "none", height |-> 1, coinbase |-> 1, amount |-> 14000000]

-----------------------------------------------------------------------------
(* Properties of the dump, checked under Spec *)

\* the UTXO namespace: keys in the half-open range [0x43, 0x44)
InUTXORange(key) == BytesLeq(<<67>>, key) /\ BytesLess(key, <<68>>)

UTXOEntries(db) == SelectSeq(db, LAMBDA e : InUTXORange(e.key))

\* the row of a store entry: its key decoded, its value decrypted and decoded
ExpectedRow(db, e) ==
    LET key == decode_key(e.key)
        val == decode_val(decrypt(e.val, get_obfuscate_key(db).key))
    IN  <<key.txid, str(key.vout), str(val.height), str(val.coinbase), str(val.amount)>>

WellFormed(db, e) ==
    /\ decode_key(e.key).raised = "none"
    /\ decode_val(decrypt(e.val, get_obfuscate_key(db).key)).raised = "none"

\* how many UTXO entries precede store entry i
RowsBefore(i) == Cardinality({j \in 1..(i - 1) : InUTXORange(store[j].key)})

\* C6: iteration order.  No entry whose key is outside [0x43, 0x44) is ever
\* passed to decode_key, decrypt or decode_val; and a completed dump of a
\* store whose UTXO entries are all well formed has emitted exactly one
\* record per UTXO entry, in the store's key order.
C6_IterationOrder ==
    /\ \A j \in 1..Len(trace) : InUTXORange(store[trace[j].entry].key)
    /\ (/\ pc = "exited" /\ exc = NoExc
        /\ \A i \in 1..Len(store) :
               InUTXORange(store[i].key) => WellFormed(store, store[i]))
       => LET U == UTXOEntries(store)
          IN  sink = <<Header>> \o [j \in 1..Len(U) |-> ExpectedRow(store, U[j])]

\* C7: no partial output.  The sink is empty until the header is written and
\* from then on holds the header once, followed by complete five-field rows
\* for a prefix of the UTXO entries in iteration order; when entry i fails to
\* decode or the run is interrupted at entry i, the sink holds rows for the
\* entries before i only, in that state and in every later one.
C7_NoPartialOutput ==
    LET U == UTXOEntries(store)
        n == Len(sink) - 1
    IN  /\ sink # <<>> =>
              /\ sink[1] = Header
              /\ n <= Len(U)
              /\ \A j \in 1..n :
                     /\ Len(sink[j + 1]) = 5
                     /\ sink[j + 1] # Header
                     /\ sink[j + 1] = ExpectedRow(store, U[j])
        /\ pc \in {"iter", "decode_key", "decrypt", "decode_val", "writerow", "return"}
              => sink # <<>>
        /\ exc.entry > 0 => n = RowsBefore(exc.entry)

\* an entry after the first failed to decode, further UTXO entries follow it,
\* and the run has ended
C7_Witness ==
    /\ exit = "failure"
    /\ exc.at = "decode_val" /\ exc.kind = "format"
    /\ Len(sink) = 2
    /\ \E j \in (exc.entry + 1)..Len(store) : InUTXORange(store[j].key)

\* C8: run outcome by error kind.  An operator interruption during the dump
\* ends the run as a success with nothing reported; a format error or a
\* failure to read the store ends it as a failure, reported by a traceback.
C8_RunOutcome ==
    exit \in {"success", "failure"} =>
        /\ (exc.kind = "interrupt" /\ exc.at \in DumpStmts)
              => (exit = "success" /\ stderr = "none")
        /\ exc.kind \in {"format", "store"}
              => (exit = "failure" /\ stderr = exc.class)

\* a read of the store failed in the middle of the loop and the run has ended
C8_Witness ==
    /\ exit = "failure"
    /\ exc.kind = "store" /\ exc.at = "iter"
    /\ Len(sink) >= 2
    /\ stderr = "LevelDBError"

SecretRefused == get_obfuscate_key(store).raised # "none"

\* C10: the secret is validated before any output.  Whenever the sink holds
\* anything the secret record was accepted and `secret` is its key; when the
\* record is absent or malformed nothing is ever written, no entry is
\* iterated and the run does not get past the load; and decode_key runs
\* on an entry right before decrypt does, so a key that fails to decode
\* leaves the entry's value buffer as the store holds it.
C10_SecretBeforeOutput ==
    /\ sink # <<>> => (~SecretRefused /\ secret = get_obfuscate_key(store).key)
    /\ SecretRefused =>
          /\ sink = <<>> /\ it = 0 /\ trace = <<>>
          /\ pc \in {"open", "get_key", "except", "uncaught", "exited"}
          /\ exit = "success" => exc.kind = "interrupt"
    /\ (exc.at = "decode_key" /\ exc.kind = "format") => v = store[exc.entry].val
    /\ \A j \in 1..Len(trace) :
          trace[j].op = "decrypt" =>
              (j > 1 /\ trace[j - 1] = [op |-> "decode_key", entry |-> trace[j].entry])

\* after a first row, a key failed to decode and its value is still ciphertext
C10_Witness ==
    /\ exc.at = "decode_key" /\ exc.kind = "format"
    /\ Len(sink) >= 2
    /\ v = store[exc.entry].val
    /\ v # decrypt(v, secret)

=============================================================================
